---- MODULE Spec2Model ----
(***************************************************************************)
(* A model of src/trie/src.hpp: the copy-on-write Trie (TrieNode,          *)
(* TrieNodeWithValue<T>, Trie::Get / Put / Remove) over an explicit heap   *)
(* of nodes addressed by reference, and the TrieStore that publishes       *)
(* Trie snapshots under write_lock_ and snapshots_lock_.                   *)
(***************************************************************************)
EXTENDS Integers, Sequences, FiniteSets, TLC

\* ------------------------------------------------------------------ bounds
\* Number of Put/Remove calls applied in a row to a bare Trie (SpecTrie).
MaxOps == 3
\* Threads using one TrieStore, each making one call (Spec).
NumThreads == 2

\* size_t(-1): the largest value of the version parameter, at reduced width.
SizeMax == 15

\* ------------------------------------------------------------------ inputs
Keys == { <<>>, <<"a">>, <<"a", "b">>, <<"b">> }
Types == { "int", "str" }
Values == { [type |-> "int", val |-> 1], [type |-> "int", val |-> 2],
            [type |-> "str", val |-> 1] }

\* ------------------------------------------------------------------ nodes
\* nullptr
Null == 0
\* the value_ a plain TrieNode does not have
NoValue == [type |-> "none", val |-> 0]
\* std::map<char, std::shared_ptr<const TrieNode>>{}
EmptyChildren == [c \in {} |-> Null]

\* children[c] = id  (std::map::operator[] followed by assignment)
MapSet(children, c, id) ==
    [x \in (DOMAIN children) \cup {c} |-> IF x = c THEN id ELSE children[x]]

\* children.erase(it)
MapErase(children, c) ==
    [x \in (DOMAIN children) \ {c} |-> children[x]]

\* TrieNode(children): a node without a value
TrieNode(children) ==
    [children_ |-> children, is_value_node_ |-> FALSE, value_ |-> NoValue]

\* TrieNodeWithValue<T>(children, value): sets is_value_node_
TrieNodeWithValue(children, value) ==
    [children_ |-> children, is_value_node_ |-> TRUE, value_ |-> value]

\* The virtual Clone(): TrieNode::Clone copies the children only,
\* TrieNodeWithValue<T>::Clone copies the children and shares the value.
Clone(node) ==
    IF node.value_ = NoValue
    THEN TrieNode(node.children_)
    ELSE TrieNodeWithValue(node.children_, node.value_)

\* ------------------------------------------------------------------ Trie::Get
Absent == [kind |-> "absent", val |-> 0]
Found(value) == [kind |-> "value", val |-> value.val]
Crash == [kind |-> "crash", val |-> 0]

\* The walk of Trie::Get from node along key[i..]: the node reached, or Null.
RECURSIVE GetWalk(_, _, _, _)
GetWalk(h, node, i, key) ==
    IF i > Len(key) THEN node
    ELSE IF key[i] \notin DOMAIN h[node].children_ THEN Null
    ELSE GetWalk(h, h[node].children_[key[i]], i + 1, key)

\* What dereferencing the null value_node of a failed dynamic_pointer_cast can
\* give: the process stops, or the read goes through and yields anything.
NullDereference ==
    {Crash, Absent} \cup { Found(v) : v \in Values }

\* The results Trie::Get<T>(key) can produce on the trie rooted at root.
Get(h, root, key, T) ==
    IF root = Null THEN {Absent}
    ELSE LET node == GetWalk(h, root, 1, key) IN
         IF node = Null THEN {Absent}
         ELSE IF h[node].is_value_node_
              THEN IF h[node].value_.type = T
                   THEN {Found(h[node].value_)}
                   ELSE NullDereference
              ELSE {Absent}

\* ------------------------------------------------------------------ Trie::Put
\* The loop of Trie::Put giving the node of an existing key no children: the
\* keys that extend it are lost.
RECURSIVE PutWalkDropChildren(_, _, _, _, _)
PutWalkDropChildren(h, node, i, key, value) ==
    IF i > Len(key) THEN h
    ELSE LET c == key[i]
             children == h[node].children_
             made == IF c \notin DOMAIN children
                     THEN IF i = Len(key)
                          THEN TrieNodeWithValue(EmptyChildren, value)
                          ELSE TrieNode(EmptyChildren)
                     ELSE IF i = Len(key)
                          THEN TrieNodeWithValue(EmptyChildren, value)
                          ELSE Clone(h[children[c]])
             id == Len(h) + 1
             h1 == Append(h, made)
             h2 == [h1 EXCEPT ![node].children_ = MapSet(@, c, id)]
         IN PutWalkDropChildren(h2, id, i + 1, key, value)

\* The loop of Trie::Put descending into the child it finds instead of a clone
\* of it: below the root it writes into the nodes of the Trie it was called on.
RECURSIVE PutWalkNoClone(_, _, _, _, _)
PutWalkNoClone(h, node, i, key, value) ==
    IF i > Len(key) THEN h
    ELSE LET c == key[i]
             children == h[node].children_
         IN IF c \in DOMAIN children /\ i # Len(key)
            THEN PutWalkNoClone(h, children[c], i + 1, key, value)
            ELSE LET made == IF c \notin DOMAIN children /\ i # Len(key)
                             THEN TrieNode(EmptyChildren)
                             ELSE IF c \notin DOMAIN children
                                  THEN TrieNodeWithValue(EmptyChildren, value)
                                  ELSE TrieNodeWithValue(
                                           h[children[c]].children_, value)
                     id == Len(h) + 1
                     h1 == Append(h, made)
                     h2 == [h1 EXCEPT ![node].children_ = MapSet(@, c, id)]
                 IN PutWalkNoClone(h2, id, i + 1, key, value)

\* The loop of Trie::Put: node is the freshly made node for key[1..i-1].
RECURSIVE PutWalk(_, _, _, _, _)
PutWalk(h, node, i, key, value) ==
    IF i > Len(key) THEN h
    ELSE LET c == key[i]
             children == h[node].children_
             last == (i = Len(key))
             made == IF c \notin DOMAIN children
                     THEN IF last THEN TrieNodeWithValue(EmptyChildren, value)
                                  ELSE TrieNode(EmptyChildren)
                     ELSE IF last
                          THEN TrieNodeWithValue(h[children[c]].children_, value)
                          ELSE Clone(h[children[c]])
             id == Len(h) + 1
             h1 == Append(h, made)
             h2 == [h1 EXCEPT ![node].children_ = MapSet(@, c, id)]
         IN PutWalk(h2, id, i + 1, key, value)

\* The root Put and Remove start from: a clone of root_, or a new empty node.
NewRoot(h, root) ==
    IF root # Null THEN Clone(h[root]) ELSE TrieNode(EmptyChildren)

\* Trie::Put writing into root_ itself instead of a clone of it.
PutInPlace(h, root, key, value) ==
    IF root = Null
    THEN LET h1 == Append(h, TrieNode(EmptyChildren))
         IN [heap |-> PutWalk(h1, Len(h) + 1, 1, key, value), root |-> Len(h) + 1]
    ELSE [heap |-> PutWalk(h, root, 1, key, value), root |-> root]

\* Trie::Put(key, value): the heap afterwards and the root of the Trie returned.
Put(h, root, key, value) ==
    LET new_root == Len(h) + 1
        h1 == Append(h, NewRoot(h, root))
    IN [heap |-> PutWalk(h1, new_root, 1, key, value), root |-> new_root]

\* ------------------------------------------------------------------ Trie::Remove
\* The child the recursive Remove descends into: a clone of children[c].
RemoveChild(h, node, c) == Clone(h[h[node].children_[c]])

\* Remove(node, pos, key) without the test that follows the update of the
\* child: a node left with no child and no value is kept.
RECURSIVE RemoveNodeNoPrune(_, _, _, _)
RemoveNodeNoPrune(h, node, pos, key) ==
    IF pos = Len(key)
    THEN IF ~h[node].is_value_node_ THEN [heap |-> h, ret |-> node]
         ELSE IF pos # 0 /\ DOMAIN h[node].children_ = {}
              THEN [heap |-> h, ret |-> Null]
              ELSE LET moved == [h EXCEPT ![node].children_ = EmptyChildren]
                   IN [heap |-> Append(moved, TrieNode(h[node].children_)),
                       ret |-> Len(h) + 1]
    ELSE LET c == key[pos + 1] IN
         IF c \notin DOMAIN h[node].children_ THEN [heap |-> h, ret |-> node]
         ELSE LET child == Len(h) + 1
                  h1 == Append(h, RemoveChild(h, node, c))
                  r == RemoveNodeNoPrune(h1, child, pos + 1, key)
                  h2 == [r.heap EXCEPT ![node].children_ =
                            IF r.ret = Null THEN MapErase(@, c)
                                            ELSE MapSet(@, c, r.ret)]
              IN [heap |-> h2, ret |-> node]

\* Remove(node, pos, key) signalling "dead" for every value node below the
\* root, the ones with children included: the keys that extend key are lost.
RECURSIVE RemoveNodeDropSubtree(_, _, _, _)
RemoveNodeDropSubtree(h, node, pos, key) ==
    IF pos = Len(key)
    THEN IF ~h[node].is_value_node_ THEN [heap |-> h, ret |-> node]
         ELSE IF pos # 0
              THEN [heap |-> h, ret |-> Null]
              ELSE LET moved == [h EXCEPT ![node].children_ = EmptyChildren]
                   IN [heap |-> Append(moved, TrieNode(h[node].children_)),
                       ret |-> Len(h) + 1]
    ELSE LET c == key[pos + 1] IN
         IF c \notin DOMAIN h[node].children_ THEN [heap |-> h, ret |-> node]
         ELSE LET child == Len(h) + 1
                  h1 == Append(h, RemoveChild(h, node, c))
                  r == RemoveNodeDropSubtree(h1, child, pos + 1, key)
                  h2 == [r.heap EXCEPT ![node].children_ =
                            IF r.ret = Null THEN MapErase(@, c)
                                            ELSE MapSet(@, c, r.ret)]
              IN IF /\ pos # 0
                    /\ DOMAIN h2[node].children_ = {}
                    /\ ~h2[node].is_value_node_
                 THEN [heap |-> h2, ret |-> Null]
                 ELSE [heap |-> h2, ret |-> node]

\* Remove(node, pos, key): the heap afterwards and the pointer returned.
RECURSIVE RemoveNode(_, _, _, _)
RemoveNode(h, node, pos, key) ==
    IF pos = Len(key)
    THEN IF ~h[node].is_value_node_ THEN [heap |-> h, ret |-> node]
         ELSE IF pos # 0 /\ DOMAIN h[node].children_ = {}
              THEN [heap |-> h, ret |-> Null]
              ELSE LET moved == [h EXCEPT ![node].children_ = EmptyChildren]
                   IN [heap |-> Append(moved, TrieNode(h[node].children_)),
                       ret |-> Len(h) + 1]
    ELSE LET c == key[pos + 1] IN
         IF c \notin DOMAIN h[node].children_ THEN [heap |-> h, ret |-> node]
         ELSE LET child == Len(h) + 1
                  h1 == Append(h, RemoveChild(h, node, c))
                  r == RemoveNode(h1, child, pos + 1, key)
                  h2 == [r.heap EXCEPT ![node].children_ =
                            IF r.ret = Null THEN MapErase(@, c)
                                            ELSE MapSet(@, c, r.ret)]
              IN IF /\ pos # 0
                    /\ DOMAIN h2[node].children_ = {}
                    /\ ~h2[node].is_value_node_
                 THEN [heap |-> h2, ret |-> Null]
                 ELSE [heap |-> h2, ret |-> node]

\* Trie::Remove descending from root_ itself instead of a clone of it.
RemoveInPlace(h, root, key) ==
    IF root = Null
    THEN LET r == RemoveNode(Append(h, TrieNode(EmptyChildren)), Len(h) + 1, 0, key)
         IN [heap |-> r.heap, root |-> r.ret]
    ELSE LET r == RemoveNode(h, root, 0, key)
         IN [heap |-> r.heap, root |-> r.ret]

\* Trie::Remove returning a Trie with no root when the removal leaves a root
\* with no child and no value.
RemoveRootless(h, root, key) ==
    LET new_root == Len(h) + 1
        h1 == Append(h, NewRoot(h, root))
        r == RemoveNode(h1, new_root, 0, key)
    IN IF /\ r.ret # Null
          /\ DOMAIN r.heap[r.ret].children_ = {}
          /\ ~r.heap[r.ret].is_value_node_
       THEN [heap |-> r.heap, root |-> Null]
       ELSE [heap |-> r.heap, root |-> r.ret]

\* Trie::Remove(key): the heap afterwards and the root of the Trie returned.
Remove(h, root, key) ==
    LET new_root == Len(h) + 1
        h1 == Append(h, NewRoot(h, root))
        r == RemoveNode(h1, new_root, 0, key)
    IN [heap |-> r.heap, root |-> r.ret]

\* Trie::operator==
TrieEq(root1, root2) == root1 = root2

\* ------------------------------------------------------------------ state
VARIABLES
    heap,            \* the nodes allocated so far; a reference is an index
    tries,           \* SpecTrie: the Trie handles made so far, by root
    hist,            \* SpecTrie: the call that made each handle
    last,            \* SpecTrie: the last call and what it returned
    snapshots_,      \* TrieStore::snapshots_, by root
    write_lock_,     \* TrieStore::write_lock_: the holder, or 0
    snapshots_lock_, \* TrieStore::snapshots_lock_: unique holder and sharers
    pc,              \* where each thread is in its call
    call,            \* the call each thread is in, with its arguments
    local,           \* each thread's locals: version, new_version, new_trie,
                     \* the snapshots_.size() it read in Get, and base, the
                     \* latest version when it read snapshots_.back()
    ret,             \* what each thread's last call returned
    log              \* the writes published, in publish order

trieVars == <<tries, hist, last>>
storeVars == <<snapshots_, write_lock_, snapshots_lock_, pc, call, local, ret,
               log>>
vars == <<heap, tries, hist, last, snapshots_, write_lock_, snapshots_lock_,
          pc, call, local, ret, log>>

Threads == 1..NumThreads
NoCall == [op |-> "none", key |-> <<>>, value |-> NoValue, type |-> "none",
           version |-> 0]
NoLocal == [version |-> 0, new_version |-> 0, new_trie |-> Null, size |-> 0,
            base |-> 0]
NoRet == [kind |-> "none", val |-> 0]

\* TrieStore's construction: snapshots_{1} holds one empty Trie.
StoreInit ==
    /\ snapshots_ = <<Null>>
    /\ write_lock_ = 0
    /\ snapshots_lock_ = [unique |-> 0, shared |-> {}]
    /\ pc = [t \in Threads |-> "idle"]
    /\ call = [t \in Threads |-> NoCall]
    /\ local = [t \in Threads |-> NoLocal]
    /\ ret = [t \in Threads |-> NoRet]
    /\ log = <<>>

\* Trie(): no root.
TrieInit ==
    /\ tries = <<Null>>
    /\ hist = <<[op |-> "Trie", key |-> <<>>, value |-> NoValue]>>
    /\ last = [op |-> "none", t |-> 0, key |-> <<>>, value |-> NoValue,
               type |-> "none", out |-> NoRet]

Init == heap = <<>> /\ TrieInit /\ StoreInit

\* ------------------------------------------------------------------ SpecTrie
\* A program that holds on to every Trie it makes, calls Put and Remove on the
\* newest one and ends with a Get on it.
CallPut(key, value) ==
    /\ Len(tries) <= MaxOps
    /\ last.op # "Get"
    /\ LET r == Put(heap, tries[Len(tries)], key, value) IN
        /\ heap' = r.heap
        /\ tries' = Append(tries, r.root)
        /\ hist' = Append(hist, [op |-> "Put", key |-> key, value |-> value])
        /\ last' = [op |-> "Put", t |-> Len(tries), key |-> key,
                    value |-> value, type |-> value.type, out |-> NoRet]
    /\ UNCHANGED storeVars

CallRemove(key) ==
    /\ Len(tries) <= MaxOps
    /\ last.op # "Get"
    /\ LET r == Remove(heap, tries[Len(tries)], key) IN
        /\ heap' = r.heap
        /\ tries' = Append(tries, r.root)
        /\ hist' = Append(hist, [op |-> "Remove", key |-> key, value |-> NoValue])
        /\ last' = [op |-> "Remove", t |-> Len(tries), key |-> key,
                    value |-> NoValue, type |-> "none", out |-> NoRet]
    /\ UNCHANGED storeVars

CallGet(t, key, T) ==
    /\ last.op # "Get"
    /\ \E out \in Get(heap, tries[t], key, T) :
         last' = [op |-> "Get", t |-> t, key |-> key, value |-> NoValue,
                  type |-> T, out |-> out]
    /\ UNCHANGED <<heap, tries, hist>>
    /\ UNCHANGED storeVars

NextTrie ==
    \/ \E key \in Keys, value \in Values : CallPut(key, value)
    \/ \E key \in Keys : CallRemove(key)
    \/ \E key \in Keys, T \in Types : CallGet(Len(tries), key, T)

SpecTrie == Init /\ [][NextTrie]_vars

\* ------------------------------------------------------------------ TrieStore
\* get_version() returning snapshots_.size().
LatestOffByOne == Len(snapshots_)

\* snapshots_.size() - 1 read by a thread that holds write_lock_: no push_back
\* can run meanwhile.
Latest == Len(snapshots_) - 1

\* Another thread is inside snapshots_.push_back.
Pushing(t) == \E u \in Threads \ {t} : pc[u] \in {"put_push", "remove_push"}

\* get_version() called with no lock held: snapshots_.size() - 1, or, read
\* during another thread's push_back, the old value, the new one or any other.
get_version(t) ==
    IF Pushing(t)
    THEN (0..Len(snapshots_)) \cup {SizeMax - 1, SizeMax}
    ELSE {Latest}

\* write_lock_ never refusing a writer.
WriteLockNeverHeld == TRUE

\* std::unique_lock on write_lock_ can be taken.
WriteLockFree == write_lock_ = 0
\* std::unique_lock on snapshots_lock_ can be taken.
SnapshotsLockFree ==
    snapshots_lock_.unique = 0 /\ snapshots_lock_.shared = {}
\* One lock for readers and writers: a reader waits for write_lock_ too.
SnapshotsLockUnderWriteLock == snapshots_lock_.unique = 0 /\ write_lock_ = 0

\* std::shared_lock on snapshots_lock_ can be taken.
SnapshotsLockShareable == snapshots_lock_.unique = 0

\* The process has stopped: no thread takes another step.
crashed == \E t \in Threads : pc[t] = "crashed"

\* Thread t enters its call. Threads are numbered in the order they start. The
\* arguments are drawn where the code first reads them.
Start(t, op, at) ==
    /\ ~crashed
    /\ pc[t] = "idle"
    /\ \A u \in Threads : u < t => pc[u] # "idle"
    /\ call' = [call EXCEPT ![t].op = op]
    /\ pc' = [pc EXCEPT ![t] = at]
    /\ UNCHANGED <<heap, snapshots_, write_lock_, snapshots_lock_, local, ret, log>>
    /\ UNCHANGED trieVars

StartPut(t) == Start(t, "Put", "put_lock")
StartRemove(t) == Start(t, "Remove", "remove_lock")
StartGet(t) == Start(t, "Get", "get_resolve")
StartGetVersion(t) == Start(t, "get_version", "get_version")

\* std::shared_lock lock1(write_lock_): writers share the lock.
LockWriteShared(t, from, to) ==
    /\ ~crashed
    /\ pc[t] = from
    /\ write_lock_' = t
    /\ pc' = [pc EXCEPT ![t] = to]
    /\ UNCHANGED <<heap, snapshots_, snapshots_lock_, call, local, ret, log>>
    /\ UNCHANGED trieVars

\* std::unique_lock lock1(write_lock_), in Put and in Remove
LockWrite(t, from, to) ==
    /\ ~crashed
    /\ pc[t] = from
    /\ WriteLockFree
    /\ write_lock_' = t
    /\ pc' = [pc EXCEPT ![t] = to]
    /\ UNCHANGED <<heap, snapshots_, snapshots_lock_, call, local, ret, log>>
    /\ UNCHANGED trieVars

\* std::unique_lock lock2(snapshots_lock_), in Put and in Remove
LockSnapshots(t, from, to) ==
    /\ ~crashed
    /\ pc[t] = from
    /\ SnapshotsLockFree
    /\ snapshots_lock_' = [snapshots_lock_ EXCEPT !.unique = t]
    /\ pc' = [pc EXCEPT ![t] = to]
    /\ UNCHANGED <<heap, snapshots_, write_lock_, call, local, ret, log>>
    /\ UNCHANGED trieVars

\* snapshots_.push_back(new_trie), in Put and in Remove
Push(t, from, to) ==
    /\ ~crashed
    /\ pc[t] = from
    /\ snapshots_' = Append(snapshots_, local[t].new_trie)
    /\ log' = Append(log, [thread |-> t, op |-> call[t].op, key |-> call[t].key,
                           value |-> call[t].value])
    /\ pc' = [pc EXCEPT ![t] = to]
    /\ UNCHANGED <<heap, write_lock_, snapshots_lock_, call, local, ret>>
    /\ UNCHANGED trieVars

\* return get_version() with lock1 and lock2 held; both are released
ReturnVersion(t, from) ==
    /\ ~crashed
    /\ pc[t] = from
    /\ ret' = [ret EXCEPT ![t] = [kind |-> "version", val |-> Latest]]
    /\ write_lock_' = IF write_lock_ = t THEN 0 ELSE write_lock_
    /\ snapshots_lock_' = IF snapshots_lock_.unique = t
                          THEN [snapshots_lock_ EXCEPT !.unique = 0]
                          ELSE snapshots_lock_
    /\ pc' = [pc EXCEPT ![t] = "done"]
    /\ UNCHANGED <<heap, snapshots_, call, local, log>>
    /\ UNCHANGED trieVars

\* ---- TrieStore::Put
PutLockWrite(t) == LockWrite(t, "put_lock", "put_build")

\* auto new_trie = snapshots_.back().Put(key, std::move(value))
PutBuild(t, key, value) ==
    /\ ~crashed
    /\ pc[t] = "put_build"
    /\ call' = [call EXCEPT ![t].key = key, ![t].value = value,
                            ![t].type = value.type]
    /\ LET r == Put(heap, snapshots_[Len(snapshots_)], key, value)
       IN /\ heap' = r.heap
          /\ local' = [local EXCEPT ![t].new_trie = r.root, ![t].base = Latest]
    /\ pc' = [pc EXCEPT ![t] = "put_lock2"]
    /\ UNCHANGED <<snapshots_, write_lock_, snapshots_lock_, ret, log>>
    /\ UNCHANGED trieVars

PutLockSnapshots(t) == LockSnapshots(t, "put_lock2", "put_push")
PutPush(t) == Push(t, "put_push", "put_return")
PutReturn(t) == ReturnVersion(t, "put_return")

\* ---- TrieStore::Remove
RemoveLockWrite(t) == LockWrite(t, "remove_lock", "remove_build")

\* new_version, new_trie = snapshots_.back().Remove(key), and the return of
\* get_version() when new_trie == snapshots_.back()
RemoveBuild(t, key) ==
    /\ ~crashed
    /\ pc[t] = "remove_build"
    /\ call' = [call EXCEPT ![t].key = key]
    /\ LET r == Remove(heap, snapshots_[Len(snapshots_)], key)
       IN /\ heap' = r.heap
          /\ local' = [local EXCEPT ![t].new_version = Latest + 1,
                                     ![t].new_trie = r.root, ![t].base = Latest]
          /\ IF TrieEq(r.root, snapshots_[Len(snapshots_)])
             THEN /\ ret' = [ret EXCEPT ![t] = [kind |-> "version", val |-> Latest]]
                  /\ write_lock_' = 0
                  /\ pc' = [pc EXCEPT ![t] = "done"]
             ELSE /\ pc' = [pc EXCEPT ![t] = "remove_lock2"]
                  /\ UNCHANGED <<ret, write_lock_>>
    /\ UNCHANGED <<snapshots_, snapshots_lock_, log>>
    /\ UNCHANGED trieVars

RemoveLockSnapshots(t) == LockSnapshots(t, "remove_lock2", "remove_push")
RemovePush(t) == Push(t, "remove_push", "remove_return")
RemoveReturn(t) == ReturnVersion(t, "remove_return")

\* ---- TrieStore::Get
\* if (version == -1) version = get_version();
GetResolve(t, version) ==
    /\ ~crashed
    /\ pc[t] = "get_resolve"
    /\ call' = [call EXCEPT ![t].version = version]
    /\ \E v \in (IF version = SizeMax THEN get_version(t) ELSE {version}) :
          local' = [local EXCEPT ![t].version = v]
    /\ pc' = [pc EXCEPT ![t] = "get_lock"]
    /\ UNCHANGED <<heap, snapshots_, write_lock_, snapshots_lock_, ret, log>>
    /\ UNCHANGED trieVars

\* std::shared_lock lock1(snapshots_lock_)
GetLockSnapshots(t) ==
    /\ ~crashed
    /\ pc[t] = "get_lock"
    /\ SnapshotsLockShareable
    /\ snapshots_lock_' = [snapshots_lock_ EXCEPT !.shared = @ \cup {t}]
    /\ pc' = [pc EXCEPT ![t] = "get_read"]
    /\ UNCHANGED <<heap, snapshots_, write_lock_, call, local, ret, log>>
    /\ UNCHANGED trieVars

\* The range check written version > snapshots_.size(): snapshots_[size()] is
\* read past the end.
StoreGetOffByOne(h, snapshots, version, key, T) ==
    IF version > Len(snapshots) THEN {Absent}
    ELSE IF version = Len(snapshots) THEN NullDereference
    ELSE Get(h, snapshots[version + 1], key, T)

\* The results of the range check and of snapshots_[version].Get<T>(key).
StoreGet(h, snapshots, version, key, T) ==
    IF version >= Len(snapshots) THEN {Absent}
    ELSE Get(h, snapshots[version + 1], key, T)

\* the range check, the lookup and the return, which releases lock1
GetRead(t, key, T) ==
    /\ ~crashed
    /\ pc[t] = "get_read"
    /\ call' = [call EXCEPT ![t].key = key, ![t].type = T]
    /\ \E out \in StoreGet(heap, snapshots_, local[t].version, key, T) :
          /\ ret' = [ret EXCEPT ![t] = out]
          /\ pc' = [pc EXCEPT ![t] = IF out = Crash THEN "crashed" ELSE "done"]
    /\ local' = [local EXCEPT ![t].size = Len(snapshots_)]
    /\ snapshots_lock_' = [snapshots_lock_ EXCEPT !.shared = @ \ {t}]
    /\ UNCHANGED <<heap, snapshots_, write_lock_, log>>
    /\ UNCHANGED trieVars

\* ---- TrieStore::get_version, called by a user thread
GetVersion(t) ==
    /\ ~crashed
    /\ pc[t] = "get_version"
    /\ \E v \in get_version(t) :
          ret' = [ret EXCEPT ![t] = [kind |-> "version", val |-> v]]
    /\ pc' = [pc EXCEPT ![t] = "done"]
    /\ UNCHANGED <<heap, snapshots_, write_lock_, snapshots_lock_, call, local,
                   log>>
    /\ UNCHANGED trieVars

\* The versions a caller asks for: some in range, some not, and size_t(-1).
Versions == {0, 1, NumThreads, SizeMax}

\* The keys and values the threads of Spec use.
StoreKeys == { <<"a">>, <<"a", "b">> }
StoreValues == { [type |-> "int", val |-> 1], [type |-> "int", val |-> 2] }

Next ==
    \/ \E t \in Threads : StartPut(t)
    \/ \E t \in Threads : StartRemove(t)
    \/ \E t \in Threads : StartGet(t)
    \/ \E t \in Threads : StartGetVersion(t)
    \/ \E t \in Threads : PutLockWrite(t)
    \/ \E t \in Threads, key \in StoreKeys, value \in StoreValues :
          PutBuild(t, key, value)
    \/ \E t \in Threads : PutLockSnapshots(t)
    \/ \E t \in Threads : PutPush(t)
    \/ \E t \in Threads : PutReturn(t)
    \/ \E t \in Threads : RemoveLockWrite(t)
    \/ \E t \in Threads, key \in StoreKeys : RemoveBuild(t, key)
    \/ \E t \in Threads : RemoveLockSnapshots(t)
    \/ \E t \in Threads : RemovePush(t)
    \/ \E t \in Threads : RemoveReturn(t)
    \/ \E t \in Threads, version \in Versions : GetResolve(t, version)
    \/ \E t \in Threads : GetLockSnapshots(t)
    \/ \E t \in Threads, key \in StoreKeys, T \in Types : GetRead(t, key, T)
    \/ \E t \in Threads : GetVersion(t)

Spec == Init /\ [][Next]_vars

\* ------------------------------------------------------------------ helpers
\* key holds a value in the trie rooted at root.
HoldsValue(h, root, key) ==
    /\ root # Null
    /\ GetWalk(h, root, 1, key) # Null
    /\ h[GetWalk(h, root, 1, key)].is_value_node_

\* The type of the value key holds in the trie rooted at root.
TypeAt(h, root, key) == h[GetWalk(h, root, 1, key)].value_.type

\* The tree below a reference, without the references: what a Trie holds.
RECURSIVE Tree(_, _)
Tree(h, id) ==
    IF id = Null THEN <<"null">>
    ELSE <<h[id].is_value_node_, h[id].value_,
           [c \in DOMAIN h[id].children_ |-> Tree(h, h[id].children_[c])]>>

\* One write of the log applied to the trie rooted at root.
Apply(h, root, w) ==
    IF w.op = "Put" THEN Put(h, root, w.key, w.value)
                    ELSE Remove(h, root, w.key)

\* The writes ws[i..] applied one at a time, starting from the trie at root.
RECURSIVE Replay(_, _, _, _)
Replay(h, root, ws, i) ==
    IF i > Len(ws) THEN [heap |-> h, root |-> root]
    ELSE LET r == Apply(h, root, ws[i]) IN Replay(r.heap, r.root, ws, i + 1)

\* The node the walk of Trie::Get reaches after the first j characters of key,
\* or Null.
PathNode(h, root, key, j) ==
    IF root = Null THEN Null ELSE GetWalk(h, root, 1, SubSeq(key, 1, j))

\* The children of a node that are not the next step of key after j characters.
OffPath(h, node, key, j) ==
    IF node = Null THEN {}
    ELSE { c \in DOMAIN h[node].children_ : j = Len(key) \/ c # key[j + 1] }

\* The nodes reachable from a reference through children_.
RECURSIVE Nodes(_, _)
Nodes(h, id) ==
    IF id = Null THEN {}
    ELSE {id} \cup UNION { Nodes(h, h[id].children_[c]) :
                              c \in DOMAIN h[id].children_ }

\* What the Trie returned by Put or Remove has: a root node, and, when no node
\* of it carries a value, a root with no child and no value on which every Get
\* is absent.
Rooted(h, root) ==
    /\ root # Null
    /\ (\A n \in Nodes(h, root) : ~h[n].is_value_node_)
        => /\ DOMAIN h[root].children_ = {}
           /\ ~h[root].is_value_node_
           /\ \A key \in Keys, T \in Types : Get(h, root, key, T) = {Absent}

\* The next step of thread t inside TrieStore::Put or TrieStore::Remove.
WriterStep(t) ==
    \/ PutLockWrite(t)
    \/ \E key \in StoreKeys, value \in StoreValues : PutBuild(t, key, value)
    \/ PutLockSnapshots(t)
    \/ PutPush(t)
    \/ PutReturn(t)
    \/ RemoveLockWrite(t)
    \/ \E key \in StoreKeys : RemoveBuild(t, key)
    \/ RemoveLockSnapshots(t)
    \/ RemovePush(t)
    \/ RemoveReturn(t)

\* The next step of thread t inside TrieStore::Get.
ReaderStep(t) ==
    \/ \E version \in Versions : GetResolve(t, version)
    \/ GetLockSnapshots(t)
    \/ \E key \in StoreKeys, T \in Types : GetRead(t, key, T)

\* Where a thread is while inside TrieStore::Get.
ReaderSection == {"get_resolve", "get_lock", "get_read"}

\* The next step of thread t inside the call it has started.
ThreadStep(t) == WriterStep(t) \/ ReaderStep(t) \/ GetVersion(t)

\* Spec with a scheduler that lets every thread that can take a step take one
\* sooner or later: a thread that stays runnable is run, and a thread waiting
\* for a lock that stays free gets it.
FairSpec == Spec /\ \A t \in Threads : WF_vars(ThreadStep(t))

\* Thread t has returned from a call of op.
Returned(t, op) == pc[t] = "done" /\ call[t].op = op

\* ------------------------------------------------------------------ claims
WriterSection ==
    {"put_build", "put_lock2", "put_push", "put_return",
     "remove_build", "remove_lock2", "remove_push", "remove_return"}

\* C1: TrieStore.Remove(key), called when key is absent from the latest
\* snapshot, appends no snapshot and returns the version that was latest before
\* the call: it never goes on to the publish step, and what it returns is the
\* version it read.
C1_RemoveAbsentKeepsVersion ==
    \A t \in Threads :
        /\ call[t].op = "Remove"
        /\ (pc[t] \in {"remove_lock2", "remove_push", "remove_return"}
               \/ Returned(t, "Remove"))
        /\ ~HoldsValue(heap, snapshots_[local[t].base + 1], call[t].key)
        => /\ Returned(t, "Remove")
           /\ ret[t].val = local[t].base
           /\ \A i \in 1..Len(snapshots_) : snapshots_[i] # local[t].new_trie

\* C2: for every Trie t and key k that holds no value in t, t.Remove(k) is
\* equal to t under Trie::operator== (the same root).
C2_RemoveAbsentSameTrie ==
    \A i \in 2..Len(tries) :
        /\ hist[i].op = "Remove"
        /\ ~HoldsValue(heap, tries[i - 1], hist[i].key)
        => TrieEq(tries[i], tries[i - 1])

\* C3: round trip: t.Put(k, v).Get<T>(k) returns v, for every key k, the empty
\* key included, and every value v of type T.
C3_PutGetRoundTrip ==
    /\ last.op = "Get"
    /\ hist[last.t].op = "Put"
    /\ hist[last.t].key = last.key
    /\ hist[last.t].value.type = last.type
    => last.out = Found(hist[last.t].value)

\* C4: type isolation: Get<U>(k) on a key that holds a value of another type T
\* completes and returns absent; it never crashes.
C4_TypeMismatchAbsent ==
    /\ last.op = "Get"
    /\ HoldsValue(heap, tries[last.t], last.key)
    /\ TypeAt(heap, tries[last.t], last.key) # last.type
    => last.out = Absent

\* C5: once version n is published, TrieStore.Get(key, version = n) gives the
\* same result for every key and type after every later step of any thread,
\* and a Get that asked for a version n published by then has returned a
\* result of that version.
C5_PublishedVersionStable ==
    /\ [](\A t \in Threads :
            /\ Returned(t, "Get")
            /\ call[t].version < local[t].size
            => ret[t] \in StoreGet(heap, snapshots_, call[t].version,
                                    call[t].key, call[t].type))
    /\ [][\A n \in 0..(Len(snapshots_) - 1), key \in Keys, T \in Types :
             StoreGet(heap', snapshots_', n, key, T)
                 = StoreGet(heap, snapshots_, n, key, T)]_vars

\* Versions 0, 1 and 2 exist and give absent, 1 and 2 for one key.
C5_Witness ==
    /\ Len(snapshots_) >= 3
    /\ \E key \in StoreKeys :
        /\ StoreGet(heap, snapshots_, 0, key, "int") = {Absent}
        /\ StoreGet(heap, snapshots_, 1, key, "int")
              = {Found([type |-> "int", val |-> 1])}
        /\ StoreGet(heap, snapshots_, 2, key, "int")
              = {Found([type |-> "int", val |-> 2])}

\* C6: non-mutation: no call of Get, Put or Remove changes a node that existed
\* before the call, and every Trie made before the call gives the same Get
\* results after it. (A step that leaves the heap as it is satisfies both.)
C6_NonMutation ==
    [][heap' # heap =>
          /\ \A id \in 1..Len(heap) : heap'[id] = heap[id]
          /\ \A i \in 1..Len(tries), key \in Keys, T \in Types :
                Get(heap', tries[i], key, T) = Get(heap, tries[i], key, T)]_vars

\* A Put or Remove was applied to a Trie that held the key, and the old Trie
\* still holds it while the new one gives another result.
C6_Witness ==
    \E i \in 2..Len(tries) :
        /\ hist[i].op \in {"Put", "Remove"}
        /\ HoldsValue(heap, tries[i - 1], hist[i].key)
        /\ \E T \in Types :
              Get(heap, tries[i], hist[i].key, T)
                  # Get(heap, tries[i - 1], hist[i].key, T)

\* C7: every TrieStore.Put appends exactly one snapshot and returns its index,
\* one more than the latest version it read; every snapshot after version 0 was
\* appended by one write, and a write that has returned gave its place in the
\* publish order, so the versions returned are dense and increasing in that
\* order, from 1.
C7_PutReturnsAppendedIndex ==
    /\ Len(log) = Len(snapshots_) - 1
    /\ \A i \in 1..Len(log) :
          pc[log[i].thread] = "done" =>
              ret[log[i].thread] = [kind |-> "version", val |-> i]
    /\ \A t \in Threads :
          Returned(t, "Put") =>
              /\ ret[t] = [kind |-> "version", val |-> local[t].base + 1]
              /\ ret[t].val < Len(snapshots_)
              /\ snapshots_[ret[t].val + 1] = local[t].new_trie
              /\ Cardinality({i \in 1..Len(snapshots_) :
                                 snapshots_[i] = local[t].new_trie}) = 1
              /\ log[ret[t].val].thread = t

\* Two threads have returned from Put, one with version 1, one with version 2.
C7_Witness ==
    \E t, u \in Threads :
        /\ t # u
        /\ Returned(t, "Put") /\ ret[t].val = 1
        /\ Returned(u, "Put") /\ ret[u].val = 2

\* C8: at most one thread is between reading the latest snapshot and the end of
\* its publish step in TrieStore.Put or TrieStore.Remove.
C8_WriterMutualExclusion ==
    Cardinality({t \in Threads : pc[t] \in WriterSection}) <= 1

\* One writer is in its section while another waits for write_lock_.
C8_Witness ==
    \E t, u \in Threads :
        /\ pc[t] \in WriterSection
        /\ pc[u] \in {"put_lock", "remove_lock"}

\* C9: every snapshot i+1 holds what the i-th published write gives when
\* applied to snapshot i, each published write is the write of one call, every
\* Put that returned is the write published at the version it returned, and
\* the latest snapshot holds what the published writes give when applied one
\* at a time, in publish order, to the empty Trie.
C9_WritesSerializable ==
    /\ Len(log) = Len(snapshots_) - 1
    /\ \A i \in 1..Len(log) :
          /\ LET r == Apply(heap, snapshots_[i], log[i])
             IN Tree(heap, snapshots_[i + 1]) = Tree(r.heap, r.root)
          /\ log[i] = [thread |-> log[i].thread, op |-> call[log[i].thread].op,
                       key |-> call[log[i].thread].key,
                       value |-> call[log[i].thread].value]
          /\ \A j \in 1..Len(log) : log[j].thread = log[i].thread => j = i
    /\ LET r == Replay(<<>>, Null, log, 1)
       IN Tree(heap, snapshots_[Len(snapshots_)]) = Tree(r.heap, r.root)
    /\ \A t \in Threads :
          Returned(t, "Put") =>
              /\ ret[t].val \in 1..Len(log)
              /\ log[ret[t].val] = [thread |-> t, op |-> "Put",
                                    key |-> call[t].key, value |-> call[t].value]

\* Two threads have published Puts of different keys, and the latest snapshot
\* holds both.
C9_Witness ==
    /\ Len(log) = 2
    /\ log[1].thread # log[2].thread
    /\ log[1].op = "Put" /\ log[2].op = "Put"
    /\ log[1].key # log[2].key
    /\ HoldsValue(heap, snapshots_[3], log[1].key)
    /\ HoldsValue(heap, snapshots_[3], log[2].key)

\* C10 as stated: for every requested version that is at least the length of
\* the snapshot sequence, the largest representable one included,
\* TrieStore.Get returns absent.
C10_OutOfRangeAbsent ==
    \A t \in Threads :
        /\ Returned(t, "Get")
        /\ call[t].version >= local[t].size
        => ret[t] = Absent

\* C10 as amended: for every requested version that is at least the length of
\* the snapshot sequence and is not size_t(-1), which Get takes as the request
\* for the latest version, TrieStore.Get returns absent.
C10_OutOfRangeAbsentButDefault ==
    \A t \in Threads :
        /\ Returned(t, "Get")
        /\ call[t].version # SizeMax
        /\ call[t].version >= local[t].size
        => ret[t] = Absent

\* A Get of a key the snapshot latest at its range check holds, with the type
\* it holds, asked for a version past the end, has returned absent.
C10_Witness ==
    \E t \in Threads :
        /\ Returned(t, "Get")
        /\ call[t].version # SizeMax
        /\ call[t].version >= local[t].size
        /\ local[t].size >= 2
        /\ HoldsValue(heap, snapshots_[local[t].size], call[t].key)
        /\ TypeAt(heap, snapshots_[local[t].size], call[t].key) = call[t].type
        /\ ret[t] = Absent

\* C11: Put preserves every other key: for every Trie t made by Put(k, v) from
\* its predecessor and every key k' other than k, keys that extend k and keys
\* that are a prefix of k included, Get(k') gives the same results on both; and
\* after Put("ab", v1) then Put("a", v2), Get("ab") is v1 and Get("a") is v2.
C11_PutPreservesOtherKeys ==
    /\ \A i \in 2..Len(tries) :
          hist[i].op = "Put" =>
              \A key \in Keys \ {hist[i].key}, T \in Types :
                  Get(heap, tries[i], key, T) = Get(heap, tries[i - 1], key, T)
    /\ \A i \in 3..Len(tries) :
          /\ hist[i - 1] = [op |-> "Put", key |-> <<"a", "b">>,
                            value |-> hist[i - 1].value]
          /\ hist[i] = [op |-> "Put", key |-> <<"a">>, value |-> hist[i].value]
          => /\ Get(heap, tries[i], <<"a", "b">>, hist[i - 1].value.type)
                    = {Found(hist[i - 1].value)}
             /\ Get(heap, tries[i], <<"a">>, hist[i].value.type)
                    = {Found(hist[i].value)}

\* Put("ab", 1) then Put("a", 2) were called, a prefix of a held key, and the
\* Trie returned holds "ab".
C11_Witness ==
    /\ Len(tries) = 3
    /\ hist[2].op = "Put" /\ hist[3].op = "Put"
    /\ hist[2].key = <<"a", "b">> /\ hist[3].key = <<"a">>
    /\ hist[2].value.val = 1 /\ hist[3].value.val = 2
    /\ HoldsValue(heap, tries[3], <<"a", "b">>)

\* C12: structural sharing: in a call t2 = t.Put(k, v), every node of t2 on the
\* path of k, the root included, is allocated by the call, and every child that
\* hangs off that path in t2 is the same reference as the child of the
\* corresponding node of t, which has the same children off the path.
C12_StructuralSharing ==
    [][tries' # tries /\ hist'[Len(tries')].op = "Put" =>
          LET key == hist'[Len(tries')].key
              t == tries[Len(tries)]
              t2 == tries'[Len(tries')]
          IN \A j \in 0..Len(key) :
                LET new == PathNode(heap', t2, key, j)
                    old == PathNode(heap, t, key, j)
                IN /\ new \in (Len(heap) + 1)..Len(heap')
                   /\ OffPath(heap', new, key, j) = OffPath(heap, old, key, j)
                   /\ \A c \in OffPath(heap', new, key, j) :
                         heap'[new].children_[c] = heap[old].children_[c]]_vars

\* Put("a") was called on a Trie that holds "ab": the node of "a" is another
\* node in the Trie returned, under another root, and the node of "ab", which
\* hangs off the path, is the same in both.
C12_Witness ==
    /\ Len(tries) = 3
    /\ hist[3].op = "Put" /\ hist[3].key = <<"a">>
    /\ HoldsValue(heap, tries[2], <<"a", "b">>)
    /\ tries[3] # tries[2]
    /\ PathNode(heap, tries[3], <<"a">>, 1) # PathNode(heap, tries[2], <<"a">>, 1)
    /\ PathNode(heap, tries[3], <<"a", "b">>, 2)
           = PathNode(heap, tries[2], <<"a", "b">>, 2)

\* C13: pruning: in every Trie made from the empty Trie by Put and Remove
\* calls, every node but the root carries a value or has at least one child;
\* and after Put("ab") then Remove("ab") on a Trie with no node for "a", the
\* Trie returned has no node for "a".
C13_PruningInvariant ==
    /\ \A i \in 1..Len(tries) :
          \A n \in Nodes(heap, tries[i]) \ {tries[i]} :
              heap[n].is_value_node_ \/ DOMAIN heap[n].children_ # {}
    /\ \A i \in 3..Len(tries) :
          /\ hist[i - 1].op = "Put" /\ hist[i - 1].key = <<"a", "b">>
          /\ hist[i].op = "Remove" /\ hist[i].key = <<"a", "b">>
          /\ PathNode(heap, tries[i - 2], <<"a">>, 1) = Null
          => PathNode(heap, tries[i], <<"a">>, 1) = Null

\* Put("ab") then Remove("ab") were called on the empty Trie: the Trie in
\* between has a node for "a", the last one has a root and no node for "a".
C13_Witness ==
    /\ Len(tries) = 3
    /\ hist[2].op = "Put" /\ hist[2].key = <<"a", "b">>
    /\ hist[3].op = "Remove" /\ hist[3].key = <<"a", "b">>
    /\ PathNode(heap, tries[2], <<"a">>, 1) # Null
    /\ tries[3] # Null
    /\ PathNode(heap, tries[3], <<"a">>, 1) = Null

\* C18: Remove of a present key: for every Trie made by Remove(k) from a
\* predecessor in which k holds a value, Get(k) is absent for every type, and
\* Get(k') gives the same results on both for every key k' other than k, keys
\* that extend k and keys that are a prefix of k included.
C18_RemovePresentKey ==
    \A i \in 2..Len(tries) :
        /\ hist[i].op = "Remove"
        /\ HoldsValue(heap, tries[i - 1], hist[i].key)
        => /\ \A T \in Types : Get(heap, tries[i], hist[i].key, T) = {Absent}
           /\ \A key \in Keys \ {hist[i].key}, T \in Types :
                 Get(heap, tries[i], key, T) = Get(heap, tries[i - 1], key, T)

\* Remove(k) was called on a Trie that holds k and a key that extends k or is
\* a prefix of k, and the Trie returned holds that other key and not k.
C18_Witness ==
    \E i \in 2..Len(tries) :
        /\ hist[i].op = "Remove"
        /\ HoldsValue(heap, tries[i - 1], hist[i].key)
        /\ ~HoldsValue(heap, tries[i], hist[i].key)
        /\ \E key \in {<<"a">>, <<"a", "b">>} \ {hist[i].key} :
              /\ hist[i].key \in {<<"a">>, <<"a", "b">>}
              /\ HoldsValue(heap, tries[i - 1], key)
              /\ HoldsValue(heap, tries[i], key)

C14_ReadersNeverBlockWriters ==
    \A w \in Threads :
        /\ ~crashed
        /\ pc[w] \in WriterSection \cup {"put_lock", "remove_lock"}
        /\ \A u \in Threads \ {w} : pc[u] \notin WriterSection
        /\ \E r \in Threads : pc[r] \in ReaderSection
        => ENABLED WriterStep(w)

\* C15: atomic publish with respect to length reads: no step that reads
\* snapshots_.size() (a call of get_version, the resolution of the default
\* version in Get, the range check in Get) is taken by one thread while another
\* thread is inside push_back.
C15_LengthReadsOutsidePublish ==
    [][\A t \in Threads :
          \/ pc[t] = "get_version" /\ pc'[t] = "done"
          \/ /\ pc[t] = "get_resolve" /\ pc'[t] = "get_lock"
             /\ call'[t].version = SizeMax
          \/ pc[t] = "get_read" /\ pc'[t] \in {"done", "crashed"}
          => ~Pushing(t)]_vars

\* C16: a TrieStore.Get called with the default version resolves it to the
\* version that is the latest at that step (or, when another thread is inside
\* push_back at that step, to the version being appended), and its lookup
\* returns a result of the snapshot of that version, whatever has been
\* published between the two steps.
C16_DefaultVersionResolvedOnce ==
    [][\A t \in Threads :
          /\ pc[t] = "get_resolve" /\ pc'[t] = "get_lock"
                 /\ call'[t].version = SizeMax
             => local'[t].version
                   \in {Latest} \cup (IF Pushing(t) THEN {Latest + 1} ELSE {})
          /\ pc[t] = "get_read" /\ pc'[t] \in {"done", "crashed"}
                 /\ call[t].version = SizeMax
             => ret'[t] \in StoreGet(heap, snapshots_, local[t].version,
                                     call'[t].key, call'[t].type)]_vars

\* C19: writers do not block readers while building: whenever a writer holds
\* write_lock_ and is building its Trie, before the publish step, and the
\* process runs, every thread inside TrieStore.Get can take its next step, up
\* to its return.
C19_BuildingWriterLetsReadersRun ==
    \A w, r \in Threads :
        /\ ~crashed
        /\ pc[w] \in {"put_build", "remove_build"}
        /\ pc[r] \in ReaderSection
        => ENABLED ReaderStep(r)

\* A writer holds write_lock_ and is building while a reader holds
\* snapshots_lock_ shared, inside its lookup.
C19_Witness ==
    \E w, r \in Threads :
        /\ pc[w] \in {"put_build", "remove_build"}
        /\ write_lock_ = w
        /\ pc[r] = "get_read"
        /\ snapshots_lock_.shared = {r}

\* C17: no operation blocks indefinitely: in every reachable state either
\* every thread has returned from its call or some thread can take a step, and
\* under fair scheduling every call that has started returns.
C17_NoIndefiniteBlocking ==
    /\ []((\A t \in Threads : pc[t] = "done") \/ ENABLED Next)
    /\ \A t \in Threads : (pc[t] # "idle") ~> (pc[t] = "done")

====
